---------------------------- MODULE Spec2Model ----------------------------
(***************************************************************************)
(* The 2-D dual-tree complex wavelet transform of dtcwt: the column        *)
(* filtering primitives of lowlevel.py and the forward / inverse pipeline   *)
(* and quad packer of transform2d.py.                                       *)
(*                                                                         *)
(* Numbers.  The code computes in floating point; the model computes the    *)
(* same expressions exactly.  A real matrix is a record [den, m]: m is the  *)
(* sequence of rows of integer numerators and den > 0 their common          *)
(* denominator.  A filter is [den, h] in the same way.  A complex plane     *)
(* produced by q2c is [den, t] with t[i][j] a tuple of complex numbers      *)
(* <<re, im>> counted in units of sqrt(1/2)/den, so the two factors         *)
(* sqrt(0.5) of q2c and c2q multiply to exactly 1/2.                        *)
(*                                                                         *)
(* Indices.  Index vectors (xe, t, s, ...) hold the 0-based values of the   *)
(* source; sequences are 1-based, so element k of v is v[k+1].              *)
(***************************************************************************)
EXTENDS Integers, Sequences, FiniteSets, TLC

----------------------------------------------------------------------------
(* Arithmetic helpers *)

Abs(v) == IF v < 0 THEN -v ELSE v

Max(a, b) == IF a >= b THEN a ELSE b

RECURSIVE Gcd(_, _)
Gcd(a, b) == IF b = 0 THEN a ELSE Gcd(b, a % b)

Lcm(a, b) == (a \div Gcd(a, b)) * b

RECURSIVE SumSeq(_)
SumSeq(s) == IF s = <<>> THEN 0 ELSE Head(s) + SumSeq(Tail(s))

\* np.sum(ha*hb): the elementwise product summed (equal lengths)
Dot(a, b) == SumSeq([k \in 1..Len(a) |-> a[k] * b[k]])

\* np.arange(start, stop, step) for step > 0
ARange(start, stop, step) ==
    IF stop <= start THEN <<>>
    ELSE [k \in 1..((stop - start + step - 1) \div step) |-> start + (k - 1) * step]

\* h[start:m:2]
Stride2(h, start) == [k \in 1..((Len(h) - start + 1) \div 2) |-> h[start + 2 * (k - 1) + 1]]

----------------------------------------------------------------------------
(* Matrices *)

NRows(M) == Len(M)

NCols(M) == IF Len(M) = 0 THEN 0 ELSE Len(M[1])

\* X.shape of a matrix record
Shape(A) == <<NRows(A.m), NCols(A.m)>>

Mat(d, rows) == [den |-> d, m |-> rows]

\* X.T
Transpose(A) ==
    Mat(A.den, [j \in 1..NCols(A.m) |-> [i \in 1..NRows(A.m) |-> A.m[i][j]]])

\* np.zeros((r, c))
Zeros(r, c) == Mat(1, [i \in 1..r |-> [j \in 1..c |-> 0]])

\* the numerators of A over the denominator d (a multiple of A.den)
Over(A, d) == [i \in 1..NRows(A.m) |-> [j \in 1..NCols(A.m) |-> A.m[i][j] * (d \div A.den)]]

\* A + B over the common denominator d
MatAddOver(d, A, B) ==
    Mat(d, [i \in 1..NRows(A.m) |-> [j \in 1..NCols(A.m) |->
              A.m[i][j] * (d \div A.den) + B.m[i][j] * (d \div B.den)]])

\* A + B for equal shapes
MatAdd(A, B) == MatAddOver(Lcm(A.den, B.den), A, B)

\* A and B hold the same real numbers
MatEq(A, B) ==
    /\ Shape(A) = Shape(B)
    /\ \A i \in 1..NRows(A.m) : \A j \in 1..NCols(A.m) :
          A.m[i][j] * B.den = B.m[i][j] * A.den

\* X[idx, :] for a vector idx of 0-based row indices
TakeRows(M, idx) == [k \in 1..Len(idx) |-> M[idx[k] + 1]]

IsZeroMat(A) == \A i \in 1..NRows(A.m) : \A j \in 1..NCols(A.m) : A.m[i][j] = 0

----------------------------------------------------------------------------
(* lowlevel.py *)

\* a variant keeping the first newsize rows
centeredAtStart(rows, newrows) == [k \in 1..newrows |-> rows[k]]

\* _centered(arr, newsize) along axis 0 (the column count is kept whole)
centered(rows, newrows) ==
    LET startind == (Len(rows) - newrows) \div 2
    IN  [k \in 1..newrows |-> rows[startind + k]]

\* every row of the full linear convolution of the columns of X with h
FullConvolve(X, h) ==
    LET r == NRows(X)
        m == Len(h)
    IN  [k \in 1..(r + m - 1) |->
           [c \in 1..NCols(X) |->
              SumSeq([j \in 1..m |->
                 IF k - j + 1 >= 1 /\ k - j + 1 <= r THEN h[j] * X[k - j + 1][c] ELSE 0])]]

\* convolve2d(X, as_column_vector(h), 'valid') for at least as many rows as taps
ConvolveValid(X, h) ==
    LET r == NRows(X)
        m == Len(h)
    IN  [i \in 1..(r - m + 1) |->
           [c \in 1..NCols(X) |-> SumSeq([j \in 1..m |-> h[j] * X[i + m - j][c]])]]

\* if full_size < 32
DirectThreshold == 32

\* fsize = 2 ** np.ceil(np.log2(full_size)): the least power of two >= n
RECURSIVE Pow2AtLeast(_, _)
Pow2AtLeast(p, n) == IF p >= n THEN p ELSE Pow2AtLeast(2 * p, n)

\* row i (0-based) of X zero-padded or cut to n rows, as _rfft(X, n=fsize) reads it
PaddedRow(X, i, c) == IF i < NRows(X) THEN X[i + 1][c] ELSE 0

\* _irfft(_rfft(X, n) * _rfft(h, n), n): the n-point circular convolution of
\* the padded columns of X with the padded h
CircularConvolve(X, h, n) ==
    [k \in 1..n |->
       [c \in 1..NCols(X) |->
          SumSeq([j \in 1..n |->
             IF j <= Len(h) THEN h[j] * PaddedRow(X, (k - j) % n, c) ELSE 0])]]

\* Xconv = _irfft(...)[:full_size,:]
FirstRows(rows, n) == [k \in 1..n |-> rows[k]]

\* the Fourier path (lines 39-55)
FourierConvolve(X, h) ==
    centered(FirstRows(CircularConvolve(X, h, Pow2AtLeast(1, NRows(X) + Len(h) - 1)),
                       NRows(X) + Len(h) - 1),
             Abs(NRows(X) - Len(h)) + 1)

\* _column_convolve(X, h) on numerators: the direct path below the size
\* threshold, otherwise the Fourier path
column_convolve(X, h) ==
    IF NRows(X) + Len(h) - 1 < DirectThreshold
    THEN ConvolveValid(X, h)
    ELSE FourierConvolve(X, h)

\* one reflection of every element above maxx; x2 boundaries are twice the
\* (half-integer) boundaries of the source
ReflectMax(y, maxx2) == [k \in 1..Len(y) |-> IF 2 * y[k] > maxx2 THEN maxx2 - y[k] ELSE y[k]]

\* a variant reflecting about 0 instead of minx
ReflectMinAboutZero(y, minx2) == [k \in 1..Len(y) |-> IF 2 * y[k] < minx2 THEN -y[k] ELSE y[k]]

ReflectMin(y, minx2) == [k \in 1..Len(y) |-> IF 2 * y[k] < minx2 THEN minx2 - y[k] ELSE y[k]]

RECURSIVE ReflectLoop(_, _, _)
ReflectLoop(y, minx2, maxx2) ==
    IF \E k \in 1..Len(y) : 2 * y[k] < minx2
    THEN ReflectLoop(ReflectMax(ReflectMin(y, minx2), maxx2), minx2, maxx2)
    ELSE y

\* reflect(x, minx, maxx) with minx = minx2/2 and maxx = maxx2/2
reflect(x, minx2, maxx2) == ReflectLoop(ReflectMax(x, maxx2), minx2, maxx2)

\* colfilter(X, h)
colfilter(X, h) ==
    LET r  == NRows(X.m)
        m  == Len(h.h)
        m2 == m \div 2
        xe == reflect(ARange(-m2, r + m2, 1), -1, 2 * r - 1)
    IN  Mat(X.den * h.den, column_convolve(TakeRows(X.m, xe), h.h))


\* what a call returns: its result, or the exception it raised
Return(Y) == [err |-> "none", Y |-> Y]

Raise(msg) == [err |-> msg, Y |-> Mat(1, <<>>)]

\* v[idx] for a vector idx of indices: numpy accepts -n <= k < n
IndexOK(n, idx) == \A k \in 1..Len(idx) : idx[k] >= -n /\ idx[k] < n

Pick(v, idx) == [k \in 1..Len(idx) |-> v[(idx[k] % Len(v)) + 1]]

Shift(t, d) == [k \in 1..Len(t) |-> t[k] + d]

\* Y[s, :] = A is accepted when A has one row per index, or a single row
AssignOK(Y, s, A) == IndexOK(Len(Y), s) /\ (Len(A) = Len(s) \/ Len(A) = 1)

AssignRows(Y, s, A) ==
    [i \in 1..Len(Y) |->
        IF \E k \in 1..Len(s) : s[k] % Len(Y) = i - 1
        THEN LET k == CHOOSE q \in 1..Len(s) : s[q] % Len(Y) = i - 1
             IN  A[IF Len(A) = 1 THEN 1 ELSE k]
        ELSE Y[i]]

\* a variant testing the filter shapes before the row count
FilterPairErrorShapeFirst(r, ha, hb, multiple) ==
    IF Len(ha.h) # Len(hb.h) THEN "Shapes of ha and hb must be the same"
    ELSE IF r % multiple # 0
    THEN IF multiple = 4 THEN "No. of rows in X must be a multiple of 4"
                         ELSE "No. of rows in X must be a multiple of 2"
    ELSE IF Len(ha.h) % 2 # 0 THEN "Lengths of ha and hb must be even"
    ELSE "none"

\* the three precondition checks shared by coldfilt and colifilt, in the
\* order of the source; "none" when all pass
FilterPairError(r, ha, hb, multiple) ==
    IF r % multiple # 0
    THEN IF multiple = 4 THEN "No. of rows in X must be a multiple of 4"
                         ELSE "No. of rows in X must be a multiple of 2"
    ELSE IF Len(ha.h) # Len(hb.h) THEN "Shapes of ha and hb must be the same"
    ELSE IF Len(ha.h) % 2 # 0 THEN "Lengths of ha and hb must be even"
    ELSE "none"

\* t = np.arange(5, r+2*m-2, 4)
coldfiltT(r, m) == ARange(5, r + 2 * m - 2, 4)

\* a variant extending by m/2 samples as colifilt does
coldfiltXeHalf(r, m) == reflect(ARange(-(m \div 2), r + (m \div 2), 1), -1, 2 * r - 1)

\* xe = reflect(np.arange(-m, r+m), -0.5, r-0.5)
coldfiltXe(r, m) == reflect(ARange(-m, r + m, 1), -1, 2 * r - 1)

\* s1 and s2: which stream takes the even output rows
coldfiltS1(r2, ha, hb) ==
    IF Dot(ha.h, hb.h) > 0 THEN ARange(0, r2, 2) ELSE Shift(ARange(0, r2, 2), 1)

coldfiltS2(r2, ha, hb) ==
    IF Dot(ha.h, hb.h) > 0 THEN Shift(ARange(0, r2, 2), 1) ELSE ARange(0, r2, 2)

\* one stream: _column_convolve(X[xe[to],:], ho) + _column_convolve(X[xe[te],:], he)
\* as numerators over d
FilterStream(X, xe, to, ho, te, he, f) ==
    MatAddOver(f, Mat(1, column_convolve(TakeRows(X.m, Pick(xe, to)), ho)),
                  Mat(1, column_convolve(TakeRows(X.m, Pick(xe, te)), he))).m

\* Y[s1,:] = Ya; Y[s2,:] = Yb; return Y
coldfiltInterleave(d, Y, s1, Ya, s2, Yb) ==
    IF ~(AssignOK(Y, s1, Ya) /\ AssignOK(Y, s2, Yb))
    THEN Raise("shape mismatch in assignment")
    ELSE Return(Mat(d, AssignRows(AssignRows(Y, s1, Ya), s2, Yb)))

\* coldfilt lines 162-183, with xe and t set up
coldfiltStreams(X, ha, hb, xe, t, d) ==
    IF ~(IndexOK(Len(xe), Shift(t, -3)) /\ IndexOK(Len(xe), t))
    THEN Raise("IndexError")
    ELSE IF Len(t) < Len(ha.h) \div 2 THEN Raise("convolve: fewer rows than taps")
    ELSE coldfiltInterleave(d, Zeros(NRows(X.m) \div 2, NCols(X.m)).m,
            coldfiltS1(NRows(X.m) \div 2, ha, hb),
            FilterStream(X, xe, Shift(t, -1), Stride2(ha.h, 0), Shift(t, -3), Stride2(ha.h, 1),
                         d \div (X.den * ha.den)),
            coldfiltS2(NRows(X.m) \div 2, ha, hb),
            FilterStream(X, xe, t, Stride2(hb.h, 0), Shift(t, -2), Stride2(hb.h, 1),
                         d \div (X.den * hb.den)))

\* coldfilt(X, ha, hb)
coldfilt(X, ha, hb) ==
    IF FilterPairError(NRows(X.m), ha, hb, 4) # "none"
    THEN Raise(FilterPairError(NRows(X.m), ha, hb, 4))
    ELSE coldfiltStreams(X, ha, hb, coldfiltXe(NRows(X.m), Len(ha.h)),
                         coldfiltT(NRows(X.m), Len(ha.h)),
                         Lcm(X.den * ha.den, X.den * hb.den))

\* np.nonzero(X[:])[0]: the row index of every non-zero element
NonzeroRowIndices(X) ==
    {i \in 0..(NRows(X.m) - 1) : \E j \in 1..NCols(X.m) : X.m[i + 1][j] # 0}

\* not np.any(np.nonzero(X[:])[0]): no non-zero element has a non-zero row index
ZeroFastPath(X) == ~(\E i \in NonzeroRowIndices(X) : i # 0)

\* xe = reflect(np.arange(-m2, r+m2), -0.5, r-0.5)
colifiltXe(r, m2) == reflect(ARange(-m2, r + m2, 1), -1, 2 * r - 1)

\* t of colifilt: it starts on d samples when m/2 is even, on b samples when odd
colifiltT(r, m) == IF (m \div 2) % 2 = 0 THEN ARange(3, r + m, 2) ELSE ARange(2, r + m - 1, 2)

\* one of the four outputs: _column_convolve(X[xe[idx],:], h) as numerators
\* over the result's denominator (f is that denominator over X.den*h.den)
InterpStream(X, xe, idx, h, f) ==
    Over(Mat(1, column_convolve(TakeRows(X.m, Pick(xe, idx)), h)), f)

\* Y[s,:], Y[s+1,:], Y[s+2,:], Y[s+3,:] assigned; return Y
colifiltInterleave(d, Y, s, Y0, Y1, Y2, Y3) ==
    IF ~(/\ AssignOK(Y, s, Y0) /\ AssignOK(Y, Shift(s, 1), Y1)
         /\ AssignOK(Y, Shift(s, 2), Y2) /\ AssignOK(Y, Shift(s, 3), Y3))
    THEN Raise("shape mismatch in assignment")
    ELSE Return(Mat(d, AssignRows(AssignRows(AssignRows(AssignRows(Y,
                        s, Y0), Shift(s, 1), Y1), Shift(s, 2), Y2), Shift(s, 3), Y3)))

\* the branch for m/2 even (lines 233-258)
colifiltEven(X, ha, hb, xe, ta, tb, d, fa, fb) ==
    colifiltInterleave(d, Zeros(NRows(X.m) * 2, NCols(X.m)).m, ARange(0, NRows(X.m) * 2, 4),
        InterpStream(X, xe, Shift(tb, -2), Stride2(ha.h, 1), fa),
        InterpStream(X, xe, Shift(ta, -2), Stride2(hb.h, 1), fb),
        InterpStream(X, xe, tb, Stride2(ha.h, 0), fa),
        InterpStream(X, xe, ta, Stride2(hb.h, 0), fb))

\* the branch for m/2 odd (lines 260-285)
colifiltOdd(X, ha, hb, xe, ta, tb, d, fa, fb) ==
    colifiltInterleave(d, Zeros(NRows(X.m) * 2, NCols(X.m)).m, ARange(0, NRows(X.m) * 2, 4),
        InterpStream(X, xe, tb, Stride2(ha.h, 0), fa),
        InterpStream(X, xe, ta, Stride2(hb.h, 0), fb),
        InterpStream(X, xe, tb, Stride2(ha.h, 1), fa),
        InterpStream(X, xe, ta, Stride2(hb.h, 1), fb))

\* both branches, with xe and t set up; t + lo are the least indices read from xe
colifiltStreams(X, ha, hb, xe, t, lo, d) ==
    IF ~(IndexOK(Len(xe), Shift(t, lo)) /\ IndexOK(Len(xe), t))
    THEN Raise("IndexError")
    ELSE IF Len(t) < Len(ha.h) \div 2 THEN Raise("convolve: fewer rows than taps")
    ELSE IF (Len(ha.h) \div 2) % 2 = 0
    THEN colifiltEven(X, ha, hb, xe,
                      IF Dot(ha.h, hb.h) > 0 THEN t ELSE Shift(t, -1),
                      IF Dot(ha.h, hb.h) > 0 THEN Shift(t, -1) ELSE t,
                      d, d \div (X.den * ha.den), d \div (X.den * hb.den))
    ELSE colifiltOdd(X, ha, hb, xe,
                     IF Dot(ha.h, hb.h) > 0 THEN t ELSE Shift(t, -1),
                     IF Dot(ha.h, hb.h) > 0 THEN Shift(t, -1) ELSE t,
                     d, d \div (X.den * ha.den), d \div (X.den * hb.den))

\* the general (convolving) path of colifilt, after the precondition checks
colifiltGeneral(X, ha, hb) ==
    colifiltStreams(X, ha, hb, colifiltXe(NRows(X.m), Len(ha.h) \div 2),
                    colifiltT(NRows(X.m), Len(ha.h)),
                    IF (Len(ha.h) \div 2) % 2 = 0 THEN -3 ELSE -1,
                    Lcm(X.den * ha.den, X.den * hb.den))

\* colifilt(X, ha, hb)
colifilt(X, ha, hb) ==
    IF FilterPairError(NRows(X.m), ha, hb, 2) # "none"
    THEN Raise(FilterPairError(NRows(X.m), ha, hb, 2))
    ELSE IF ZeroFastPath(X) THEN Return(Zeros(NRows(X.m) * 2, NCols(X.m)))
    ELSE colifiltGeneral(X, ha, hb)

----------------------------------------------------------------------------
(* transform2d.py: the quad packer *)

\* q2c(y): p = (a + jb)/sqrt(2), q = (d - jc)/sqrt(2), z = dstack((p-q, p+q))
q2cSignSlip(y) ==
    LET H == NRows(y.m) \div 2
        W == NCols(y.m) \div 2
    IN  [den |-> y.den,
         t   |-> [i \in 1..H |-> [j \in 1..W |->
                   LET a == y.m[2 * i - 1][2 * j - 1]
                       b == y.m[2 * i - 1][2 * j]
                       c == y.m[2 * i][2 * j - 1]
                       d == y.m[2 * i][2 * j]
                       p == <<a, b>>
                       q == <<d, c>>
                   IN  << <<p[1] - q[1], p[2] - q[2]>>, <<p[1] + q[1], p[2] + q[2]>> >>]]]

q2c(y) ==
    LET H == NRows(y.m) \div 2
        W == NCols(y.m) \div 2
    IN  [den |-> y.den,
         t   |-> [i \in 1..H |-> [j \in 1..W |->
                   LET a == y.m[2 * i - 1][2 * j - 1]
                       b == y.m[2 * i - 1][2 * j]
                       c == y.m[2 * i][2 * j - 1]
                       d == y.m[2 * i][2 * j]
                       p == <<a, b>>
                       q == <<d, -c>>
                   IN  << <<p[1] - q[1], p[2] - q[2]>>, <<p[1] + q[1], p[2] + q[2]>> >>]]]

\* c2q(w, gain): sc = sqrt(0.5)*gain, P = w0*sc0 + w1*sc1, Q = w0*sc0 - w1*sc1,
\* scattered as Re P, Im P, Im Q, -Re Q; the result is counted in 1/(2*w.den)
c2q(w, gain) ==
    LET H == Len(w.t)
        W == IF H = 0 THEN 0 ELSE Len(w.t[1])
        P(i, j) == <<w.t[i][j][1][1] * gain[1] + w.t[i][j][2][1] * gain[2],
                     w.t[i][j][1][2] * gain[1] + w.t[i][j][2][2] * gain[2]>>
        Q(i, j) == <<w.t[i][j][1][1] * gain[1] - w.t[i][j][2][1] * gain[2],
                     w.t[i][j][1][2] * gain[1] - w.t[i][j][2][2] * gain[2]>>
    IN  Mat(2 * w.den,
            [i \in 1..(2 * H) |-> [j \in 1..(2 * W) |->
                LET qi == (i + 1) \div 2
                    qj == (j + 1) \div 2
                IN  IF i % 2 = 1 /\ j % 2 = 1 THEN P(qi, qj)[1]
                    ELSE IF i % 2 = 1 /\ j % 2 = 0 THEN P(qi, qj)[2]
                    ELSE IF i % 2 = 0 /\ j % 2 = 1 THEN Q(qi, qj)[2]
                    ELSE -Q(qi, qj)[1]]])

----------------------------------------------------------------------------
(* Filter sets handed to the transform as explicit coefficient tuples *)

Filter(d, taps) == [den |-> d, h |-> taps]

Reverse(h) == [k \in 1..Len(h) |-> h[Len(h) + 1 - k]]

\* the LeGall 5,3 tap biorthogonal set (h0o, g0o, h1o, g1o)
Legall ==
    [h0o |-> Filter(8, <<-1, 2, 6, 2, -1>>), g0o |-> Filter(4, <<1, 2, 1>>),
     h1o |-> Filter(4, <<-1, 2, -1>>),       g1o |-> Filter(8, <<-1, -2, 6, -2, -1>>)]

\* a q-shift tuple (h0a, h0b, g0a, g0b, h1a, h1b, g1a, g1b) built from the
\* tree-a analysis pair: the b filters are the reversed a filters and the
\* reconstruction filters g (over gden) are the reversed analysis filters
QshiftSet(hden, h0a, h1a, gden) ==
    [h0a |-> Filter(hden, h0a), h0b |-> Filter(hden, Reverse(h0a)),
     g0a |-> Filter(gden, Reverse(h0a)), g0b |-> Filter(gden, h0a),
     h1a |-> Filter(hden, h1a), h1b |-> Filter(hden, Reverse(h1a)),
     g1a |-> Filter(gden, Reverse(h1a)), g1b |-> Filter(gden, h1a)]

\* 2 taps (m/2 odd): the Haar pair, analysis over 2 and reconstruction over 1
QshiftHaar == QshiftSet(2, <<1, 1>>, <<1, -1>>, 1)

\* 4 taps (m/2 even): the orthonormal pair (1,1,1,-1)/2, (1,1,-1,1)/2
QshiftOrth4 == QshiftSet(2, <<1, 1, 1, -1>>, <<1, 1, -1, 1>>, 2)

----------------------------------------------------------------------------
(* transform2d.py: dtwavexfm2 *)

None == [none |-> TRUE]

\* np.vstack((X, X[-1,:])) and np.hstack((X, X[:,-1].T))
\* a variant duplicating the top row
AppendFirstRow(A) == Mat(A.den, Append(A.m, A.m[1]))

AppendLastRow(A) == Mat(A.den, Append(A.m, A.m[Len(A.m)]))

AppendLastCol(A) == Mat(A.den, [i \in 1..NRows(A.m) |-> Append(A.m[i], A.m[i][Len(A.m[i])])])

\* np.vstack((LoLo[0,:], LoLo, LoLo[-1,:])) and the hstack of the columns
PadRows(A) == Mat(A.den, <<A.m[1]>> \o A.m \o <<A.m[Len(A.m)]>>)

PadCols(A) ==
    Mat(A.den, [i \in 1..NRows(A.m) |-> <<A.m[i][1]>> \o A.m[i] \o <<A.m[i][Len(A.m[i])]>>])

\* np.zeros((H, W, 6)) with [:,:,[0,5]], [:,:,[2,3]] and [:,:,[1,4]] assigned
\* from the three q2c results (bands 0..5 are elements 1..6)
Subbands(H, W, horiz, vert, diag) ==
    LET d  == Lcm(horiz.den, Lcm(vert.den, diag.den))
        C(w, k, i, j) == <<w.t[i][j][k][1] * (d \div w.den), w.t[i][j][k][2] * (d \div w.den)>>
    IN  [den |-> d,
         t   |-> [i \in 1..H |-> [j \in 1..W |->
                    <<C(horiz, 1, i, j), C(diag, 1, i, j), C(vert, 1, i, j),
                      C(vert, 2, i, j), C(diag, 2, i, j), C(horiz, 2, i, j)>>]]]

\* the shape of a q2c result or of a subband tensor, without the band axis
PlaneShape(w) == <<Len(w.t), IF Len(w.t) = 0 THEN 0 ELSE Len(w.t[1])>>

\* Yh[l][:,:,[b1, b2]]
Bands(w, b1, b2) ==
    [den |-> w.den,
     t   |-> [i \in 1..Len(w.t) |-> [j \in 1..Len(w.t[i]) |->
                <<w.t[i][j][b1 + 1], w.t[i][j][b2 + 1]>>]]]

\* Yh[level] = np.zeros((LoLo.shape[0]/2, LoLo.shape[1]/2, 6)) and its three
\* assignments; what a level hands on: the new LoLo and the subband tensor
LevelResult(lolo, horiz, vert, diag) ==
    IF \E w \in {horiz, vert, diag} :
          PlaneShape(w) # <<NRows(lolo.m) \div 2, NCols(lolo.m) \div 2>>
    THEN [err |-> "shape mismatch in assignment", LoLo |-> lolo, Yh |-> None]
    ELSE [err |-> "none", LoLo |-> lolo,
          Yh  |-> Subbands(NRows(lolo.m) \div 2, NCols(lolo.m) \div 2, horiz, vert, diag)]

\* level 1, rows (lines 105-111): LoLo and the three quad images from Lo and Hi
XfmLevel1Rows(Lo, Hi, biort) ==
    LevelResult(Transpose(colfilter(Lo, biort.h0o)),
                q2c(Transpose(colfilter(Hi, biort.h0o))),
                q2c(Transpose(colfilter(Lo, biort.h1o))),
                q2c(Transpose(colfilter(Hi, biort.h1o))))

\* the level 1 block (lines 100-111): odd filters on columns then rows, no decimation
XfmLevel1(Xm, biort) ==
    XfmLevel1Rows(Transpose(colfilter(Xm, biort.h0o)), Transpose(colfilter(Xm, biort.h1o)), biort)

\* the first exception among calls made in this order, "none" without one
FirstError(calls) ==
    IF \A k \in 1..Len(calls) : calls[k].err = "none" THEN "none"
    ELSE calls[CHOOSE k \in 1..Len(calls) :
                 /\ calls[k].err # "none"
                 /\ \A q \in 1..(k - 1) : calls[q].err = "none"].err

\* a variant that never pads the rows
PadRowsNever(lolo0) == lolo0

\* LoLo with its rows padded when row_size is no multiple of 4 (lines 119-121)
PadRowsTo4(lolo0) == IF NRows(lolo0.m) % 4 # 0 THEN PadRows(lolo0) ELSE lolo0

\* a variant that pads the rows only
PadRowsOnly(lolo0) == PadRowsTo4(lolo0)

\* LoLo padded to a multiple of 4 in both directions (lines 118-125); col_size
\* is read before the rows are padded
PadToMultipleOf4(lolo0) ==
    IF NCols(lolo0.m) % 4 # 0 THEN PadCols(PadRowsTo4(lolo0)) ELSE PadRowsTo4(lolo0)

\* a level >= 2 after its four coldfilt calls on Lo and Hi (lines 132-137)
XfmLevelNPack(lolo0, cLL, cHor, cVer, cDia) ==
    IF FirstError(<<cLL, cHor, cVer, cDia>>) # "none"
    THEN [err |-> FirstError(<<cLL, cHor, cVer, cDia>>), LoLo |-> lolo0, Yh |-> None]
    ELSE LevelResult(Transpose(cLL.Y), q2c(Transpose(cHor.Y)),
                     q2c(Transpose(cVer.Y)), q2c(Transpose(cDia.Y)))

\* a level >= 2 after its two coldfilt calls on LoLo (lines 128-129)
XfmLevelNRows(lolo0, cLo, cHi, qs) ==
    IF FirstError(<<cLo, cHi>>) # "none"
    THEN [err |-> FirstError(<<cLo, cHi>>), LoLo |-> lolo0, Yh |-> None]
    ELSE XfmLevelNPack(lolo0,
            coldfilt(Transpose(cLo.Y), qs.h0b, qs.h0a),
            coldfilt(Transpose(cHi.Y), qs.h0b, qs.h0a),
            coldfilt(Transpose(cLo.Y), qs.h1b, qs.h1a),
            coldfilt(Transpose(cHi.Y), qs.h1b, qs.h1a))

\* the filtering of a padded LoLo
XfmLevelNPadded(lolo0, padded, qs) ==
    XfmLevelNRows(lolo0, coldfilt(padded, qs.h0b, qs.h0a), coldfilt(padded, qs.h1b, qs.h1a), qs)

\* one pass of the loop over levels >= 2 (lines 118-137): even q-shift filters,
\* decimating
XfmLevelN(lolo0, qs) == XfmLevelNPadded(lolo0, PadToMultipleOf4(lolo0), qs)

\* one logging.warn call: its text and the sizes formatted into it
Warn(text, sizes) == [text |-> text, sizes |-> sizes]

\* the first warning of each of the three cases
SizeWarning(extended_size, original_size) ==
    Warn("The image entered is now a {0} NOT a {1}.", <<extended_size, original_size>>)

\* the logging.warn calls after the levels (lines 144-163), by what was duplicated
Advisory(row_extend, col_extend, extended_size, original_size) ==
    IF row_extend = 1 /\ col_extend = 1
    THEN <<SizeWarning(extended_size, original_size),
           Warn("The bottom row and rightmost column have been duplicated, prior to decomposition.", <<>>)>>
    ELSE IF row_extend = 1 /\ col_extend = 0
    THEN <<SizeWarning(extended_size, original_size),
           Warn("The bottom row has been duplicated, prior to decomposition.", <<>>)>>
    ELSE IF row_extend = 0 /\ col_extend = 1
    THEN <<SizeWarning(extended_size, original_size),
           Warn("The rightmost column has been duplicated, prior to decomposition.", <<>>)>>
    ELSE <<>>

----------------------------------------------------------------------------
(* transform2d.py: dtwaveifm2 *)

\* Z[1:-1, :] and Z[:, 1:-1]
CropRows(A) == Mat(A.den, [k \in 1..Max(NRows(A.m) - 2, 0) |-> A.m[k + 1]])

CropCols(A) ==
    Mat(A.den, [i \in 1..NRows(A.m) |-> [k \in 1..Max(NCols(A.m) - 2, 0) |-> A.m[i][k + 1]]])

\* "Check size of Z and crop as required" against S = 2*Yh[current_level-2].shape;
\* row_size and col_size are read before the rows are cropped
CropRowsTo(Zm, S) == IF NRows(Zm.m) # S[1] THEN CropRows(Zm) ELSE Zm

\* a variant that never crops
CropNever(Zm, S) == Zm

CropToSubband(Zm, S) == IF NCols(Zm.m) # S[2] THEN CropCols(CropRowsTo(Zm, S)) ELSE CropRowsTo(Zm, S)

\* np.ones((6, a)): the default gain_mask
DefaultGainMask(a) == [d \in 1..6 |-> [l \in 1..a |-> 1]]

\* gain_mask[[b1, b2], current_level-1] for the 1-based level lvl
MaskRows(gain_mask, b1, b2, lvl) == <<gain_mask[b1 + 1][lvl], gain_mask[b2 + 1][lvl]>>

\* a + b of two call results: the first exception, or the sum
AddCalls(ca, cb) ==
    IF ca.err # "none" THEN ca
    ELSE IF cb.err # "none" THEN cb
    ELSE IF Shape(ca.Y) # Shape(cb.Y) THEN Raise("operands could not be broadcast together")
    ELSE Return(MatAdd(ca.Y, cb.Y))

\* the raise of line 257-258 on the cropped Z
IfmCheckSize(cropped, S) ==
    IF Shape(cropped) # S THEN Raise("Sizes of subbands are not valid for DTWAVEIFM2")
    ELSE Return(cropped)

\* lines 250-258 on Z = zz.T
IfmCrop(zz, S) == IF zz.err # "none" THEN zz ELSE IfmCheckSize(CropToSubband(Transpose(zz.Y), S), S)

\* line 247 on y1 and y2, then the crop
IfmLevelNRows(y1, y2, S, qs) ==
    IF y1.err # "none" THEN y1
    ELSE IF y2.err # "none" THEN y2
    ELSE IfmCrop(AddCalls(colifilt(Transpose(y1.Y), qs.g0b, qs.g0a),
                          colifilt(Transpose(y2.Y), qs.g1b, qs.g1a)), S)

\* lines 244-245 on the three quad images
IfmLevelNCols(Zm, lh, hl, hh, S, qs) ==
    IfmLevelNRows(AddCalls(colifilt(Zm, qs.g0b, qs.g0a), colifilt(lh, qs.g1b, qs.g1a)),
                  AddCalls(colifilt(hl, qs.g0b, qs.g0a), colifilt(hh, qs.g1b, qs.g1a)), S, qs)

\* one pass of the while loop (lines 239-258) for the 1-based level lvl >= 2;
\* w is Yh[current_level-1] and finer is Yh[current_level-2]
IfmLevelN(Zm, w, finer, gain_mask, lvl, qs) ==
    IfmLevelNCols(Zm, c2q(Bands(w, 0, 5), MaskRows(gain_mask, 0, 5, lvl)),
                      c2q(Bands(w, 2, 3), MaskRows(gain_mask, 2, 3, lvl)),
                      c2q(Bands(w, 1, 4), MaskRows(gain_mask, 1, 4, lvl)),
                  <<2 * PlaneShape(finer)[1], 2 * PlaneShape(finer)[2]>>, qs)

\* line 271 on y1 and y2
IfmLevel1Rows(y1, y2, biort) ==
    Return(Transpose(MatAdd(colfilter(Transpose(y1), biort.g0o), colfilter(Transpose(y2), biort.g1o))))

\* lines 268-269 on the three quad images
IfmLevel1Cols(Zm, lh, hl, hh, biort) ==
    IfmLevel1Rows(MatAdd(colfilter(Zm, biort.g0o), colfilter(lh, biort.g1o)),
                  MatAdd(colfilter(hl, biort.g0o), colfilter(hh, biort.g1o)), biort)

\* the level 1 block of the inverse (lines 263-271): odd filters, no interpolation
IfmLevel1(Zm, w, gain_mask, biort) ==
    IfmLevel1Cols(Zm, c2q(Bands(w, 0, 5), MaskRows(gain_mask, 0, 5, 1)),
                      c2q(Bands(w, 2, 3), MaskRows(gain_mask, 2, 3, 1)),
                      c2q(Bands(w, 1, 4), MaskRows(gain_mask, 1, 4, 1)), biort)

----------------------------------------------------------------------------
(* Bounds and inputs *)

\* image shapes run over 1..MaxDim x 1..MaxDim
MaxDim == 6

\* nlevels runs over 0..MaxLevels
MaxLevels == 3

\* pixels of the exhaustively enumerated small images run over 0..MaxPixel
MaxPixel == 1

\* one image per shape, with no two equal neighbours
Ramp(r, c) == Mat(1, [i \in 1..r |-> [j \in 1..c |-> ((3 * i + 5 * j) % 7) - 3]])

ShapeImages == {Ramp(r, c) : r \in 1..MaxDim, c \in 1..MaxDim}

\* every 2 x 2 image over the pixel values
SmallImages ==
    {Mat(1, <<<<a, b>>, <<c, d>>>>) : a \in 0..MaxPixel, b \in 0..MaxPixel,
                                      c \in 0..MaxPixel, d \in 0..MaxPixel}

QshiftSets == {QshiftHaar, QshiftOrth4}

----------------------------------------------------------------------------
(* State *)

VARIABLES
    pc,                  \* position of the call in progress
    image,               \* dtwavexfm2: the argument X
    nlevels,             \* dtwavexfm2: nlevels
    include_scale,       \* dtwavexfm2: include_scale
    qshift,              \* the q-shift coefficient tuple of both transforms
    Xext,                \* dtwavexfm2: X after the odd-size extension
    initial_row_extend,  \* dtwavexfm2
    initial_col_extend,  \* dtwavexfm2
    LoLo,                \* dtwavexfm2
    Yh,                  \* dtwavexfm2: the list of subband tensors
    Yscale,              \* dtwavexfm2: the list of scale images
    level,               \* dtwavexfm2: the loop variable
    warnings,            \* messages passed to logging.warn so far
    xfmRet,              \* what dtwavexfm2 returned or raised
    lowpassHistory,      \* history: the LoLo produced by each level so far
    Z,                   \* dtwaveifm2
    current_level,       \* dtwaveifm2
    ifmRet,              \* what dtwaveifm2 returned or raised
    imageBuf,            \* the array the caller passed to dtwavexfm2 as X
    nbufs,               \* the number of arrays that exist; a new array is nbufs + 1
    bufX,                \* dtwavexfm2: the array X refers to (0: none yet)
    bufLoLo,             \* dtwavexfm2: the array LoLo refers to
    bufYl,               \* the array dtwavexfm2 returned as Yl, passed on to dtwaveifm2
    bufZ,                \* dtwaveifm2: the array Z refers to
    bufRet,              \* the array dtwaveifm2 returned
    packY,               \* packer round trip: the real matrix y
    packGain,            \* packer round trip: the gain of c2q
    packZ,               \* packer round trip: z = q2c(y)
    packX,               \* packer round trip: x = c2q(z, gain)
    filtX,               \* filter-pair call: the argument X
    filtHa,              \* filter-pair call: ha
    filtHb,              \* filter-pair call: hb
    filtRet,             \* filter-pair call: what the call returned or raised
    filtBack,            \* what colifilt returned for the result of coldfilt
    reflHeap,            \* reflect: the arrays that exist; array k is reflHeap[k]
    reflArg,             \* reflect: history, the elements of x when reflect was called
    reflMinx2,           \* reflect: 2*minx
    reflMaxx2,           \* reflect: 2*maxx
    reflY,               \* reflect: the array y refers to (0 before it is assigned)
    reflRet,             \* reflect: the array returned (0 before the return)
    convX,               \* _column_convolve: the argument X (rows of numerators)
    convH,               \* _column_convolve: the argument h
    convPath,            \* _column_convolve: the path taken
    convRet              \* _column_convolve: what it returned

\* which array each name of the transforms refers to; a transposed or sliced
\* view counts as the array it is a view of
bufVars == <<imageBuf, nbufs, bufX, bufLoLo, bufYl, bufZ, bufRet>>

xfmVars ==
    <<image, nlevels, include_scale, qshift, Xext, initial_row_extend,
      initial_col_extend, LoLo, Yh, Yscale, level, warnings, xfmRet,
      lowpassHistory, Z, current_level, ifmRet, bufVars>>

packVars == <<packY, packGain, packZ, packX>>

filtVars == <<filtX, filtHa, filtHb, filtRet, filtBack>>

reflVars == <<reflHeap, reflArg, reflMinx2, reflMaxx2, reflY, reflRet>>

convVars == <<convX, convH, convPath, convRet>>

\* the state of the primitives called on their own
primVars == <<reflVars, convVars>>

vars == <<pc, xfmVars, packVars, filtVars, primVars>>

Unset == "unset"

PackIdle == packY = Unset /\ packGain = Unset /\ packZ = Unset /\ packX = Unset

FiltIdle ==
    /\ filtX = Unset /\ filtHa = Unset /\ filtHb = Unset
    /\ filtRet = Unset /\ filtBack = Unset

ReflIdle ==
    /\ reflHeap = <<>> /\ reflArg = <<>> /\ reflMinx2 = 0 /\ reflMaxx2 = 0
    /\ reflY = 0 /\ reflRet = 0

ConvIdle == convX = Unset /\ convH = Unset /\ convPath = Unset /\ convRet = Unset

PrimIdle == ReflIdle /\ ConvIdle

XfmInit ==
    /\ PackIdle
    /\ FiltIdle
    /\ PrimIdle
    /\ pc = "xfm_enter"
    /\ image \in ShapeImages \cup SmallImages
    /\ nlevels \in 0..MaxLevels
    /\ include_scale \in BOOLEAN
    /\ qshift \in QshiftSets
    /\ Xext = Unset
    /\ initial_row_extend = 0
    /\ initial_col_extend = 0
    /\ LoLo = Unset
    /\ Yh = Unset
    /\ Yscale = Unset
    /\ level = 0
    /\ warnings = <<>>
    /\ xfmRet = Unset
    /\ lowpassHistory = <<>>
    /\ Z = Unset
    /\ current_level = 0
    /\ ifmRet = Unset
    /\ imageBuf = 1
    /\ nbufs = 1
    /\ bufX = 0
    /\ bufLoLo = 0
    /\ bufYl = 0
    /\ bufZ = 0
    /\ bufRet = 0

\* X = np.atleast_2d(X) for a 2-D array X: the array itself, no copy
AtLeast2d(buf) == buf

\* X after the odd-size extension (lines 76-84)
ExtendRows(A) == IF NRows(A.m) % 2 # 0 THEN AppendLastRow(A) ELSE A

ExtendToEven(A) == IF NCols(A.m) % 2 # 0 THEN AppendLastCol(ExtendRows(A)) ELSE ExtendRows(A)

\* dtwavexfm2 lines 52-98: the odd-size extension, the nlevels == 0 return,
\* the placeholder lists
XfmEnter ==
    /\ pc = "xfm_enter"
    /\ Xext' = ExtendToEven(image)
    /\ initial_row_extend' = IF Shape(image)[1] % 2 # 0 THEN 1 ELSE 0
    /\ initial_col_extend' = IF Shape(image)[2] % 2 # 0 THEN 1 ELSE 0
    /\ IF nlevels = 0
       THEN /\ xfmRet' = [err |-> "none", Yl |-> Xext', Yh |-> <<>>,
                          Yscale |-> IF include_scale THEN <<>> ELSE Unset]
            /\ pc' = "xfm_returned"
            /\ UNCHANGED <<Yh, Yscale>>
       ELSE /\ Yh' = [k \in 1..nlevels |-> None]
            /\ Yscale' = IF include_scale THEN [k \in 1..nlevels |-> None] ELSE Unset
            /\ pc' = "xfm_level1"
            /\ UNCHANGED xfmRet
    /\ nbufs' = nbufs + (IF Shape(image)[1] % 2 # 0 THEN 1 ELSE 0)
                     + (IF Shape(image)[2] % 2 # 0 THEN 1 ELSE 0)
    /\ bufX' = IF nbufs' # nbufs THEN nbufs' ELSE AtLeast2d(imageBuf)
    /\ bufYl' = IF nlevels = 0 THEN bufX' ELSE bufYl
    /\ UNCHANGED <<imageBuf, bufLoLo, bufZ, bufRet>>
    /\ UNCHANGED <<packVars, filtVars, primVars>>
    /\ UNCHANGED <<image, nlevels, include_scale, qshift, LoLo, level, warnings,
                   lowpassHistory, Z, current_level, ifmRet>>

\* what a level leaves behind: LoLo, Yh[level] and, with include_scale, the
\* scale image written to Yscale[scaleSlot] (0-based indices); or the exception
XfmStoreLevel(res, yhSlot, scaleSlot) ==
    IF res.err # "none"
    THEN /\ xfmRet' = [err |-> res.err]
         /\ pc' = "xfm_raised"
         /\ UNCHANGED <<LoLo, Yh, Yscale, lowpassHistory, level, nbufs, bufLoLo>>
    ELSE /\ LoLo' = res.LoLo
         /\ nbufs' = nbufs + 1
         /\ bufLoLo' = nbufs'
         /\ Yh' = [Yh EXCEPT ![yhSlot + 1] = res.Yh]
         /\ Yscale' = IF include_scale THEN [Yscale EXCEPT ![scaleSlot + 1] = res.LoLo]
                                       ELSE Yscale
         /\ lowpassHistory' = Append(lowpassHistory, res.LoLo)
         /\ level' = yhSlot + 1
         /\ pc' = IF yhSlot + 1 < nlevels THEN "xfm_loop" ELSE "xfm_finish"
         /\ UNCHANGED xfmRet

\* dtwavexfm2 lines 100-114: Yh[0] and Yscale[0]
XfmFirstLevel ==
    /\ pc = "xfm_level1"
    /\ XfmStoreLevel(XfmLevel1(Xext, Legall), 0, 0)
    /\ UNCHANGED <<imageBuf, bufX, bufYl, bufZ, bufRet>>
    /\ UNCHANGED <<packVars, filtVars, primVars>>
    /\ UNCHANGED <<image, nlevels, include_scale, qshift, Xext, initial_row_extend,
                   initial_col_extend, warnings, Z, current_level, ifmRet>>

\* dtwavexfm2 lines 117-140: one pass of the loop; level holds the loop
\* variable of the pass: Yh[level] and Yscale[0]
XfmNextLevel ==
    /\ pc = "xfm_loop"
    /\ XfmStoreLevel(XfmLevelN(LoLo, qshift), level, 0)
    /\ UNCHANGED <<imageBuf, bufX, bufYl, bufZ, bufRet>>
    /\ UNCHANGED <<packVars, filtVars, primVars>>
    /\ UNCHANGED <<image, nlevels, include_scale, qshift, Xext, initial_row_extend,
                   initial_col_extend, warnings, Z, current_level, ifmRet>>

\* dtwavexfm2 lines 142-168: the advisories and the return
XfmFinish ==
    /\ pc = "xfm_finish"
    /\ warnings' = warnings \o Advisory(initial_row_extend, initial_col_extend, Shape(Xext), Shape(image))
    /\ xfmRet' = [err |-> "none", Yl |-> LoLo, Yh |-> Yh,
                  Yscale |-> IF include_scale THEN Yscale ELSE Unset]
    /\ pc' = "xfm_returned"
    /\ bufYl' = bufLoLo
    /\ UNCHANGED <<imageBuf, nbufs, bufX, bufLoLo, bufZ, bufRet>>
    /\ UNCHANGED <<packVars, filtVars, primVars>>
    /\ UNCHANGED <<image, nlevels, include_scale, qshift, Xext, initial_row_extend,
                   initial_col_extend, LoLo, Yh, Yscale, level, lowpassHistory, Z,
                   current_level, ifmRet>>

\* dtwaveifm2 lines 216-236, called with the (Yl, Yh) dtwavexfm2 returned
IfmEnter ==
    /\ pc = "xfm_returned"
    /\ current_level' = Len(xfmRet.Yh)
    /\ Z' = xfmRet.Yl
    /\ pc' = "ifm_loop"
    /\ bufZ' = bufYl
    /\ UNCHANGED <<imageBuf, nbufs, bufX, bufLoLo, bufYl, bufRet>>
    /\ UNCHANGED <<packVars, filtVars, primVars>>
    /\ UNCHANGED <<image, nlevels, include_scale, qshift, Xext, initial_row_extend,
                   initial_col_extend, LoLo, Yh, Yscale, level, warnings, xfmRet,
                   lowpassHistory, ifmRet>>

\* what a pass of the while loop leaves behind: Z and current_level, or the exception
IfmStoreLevel(res) ==
    IF res.err # "none"
    THEN /\ ifmRet' = [err |-> res.err]
         /\ pc' = "ifm_raised"
         /\ UNCHANGED <<Z, current_level, nbufs, bufZ>>
    ELSE /\ Z' = res.Y
         /\ nbufs' = nbufs + 1
         /\ bufZ' = nbufs'
         /\ current_level' = current_level - 1
         /\ pc' = "ifm_loop"
         /\ UNCHANGED ifmRet

\* dtwaveifm2 lines 238-260: one pass of the while loop
IfmNextLevel ==
    /\ pc = "ifm_loop"
    /\ current_level >= 2
    /\ IfmStoreLevel(IfmLevelN(Z, xfmRet.Yh[current_level], xfmRet.Yh[current_level - 1],
                               DefaultGainMask(Len(xfmRet.Yh)), current_level, qshift))
    /\ UNCHANGED <<imageBuf, bufX, bufLoLo, bufYl, bufRet>>
    /\ UNCHANGED <<packVars, filtVars, primVars>>
    /\ UNCHANGED <<image, nlevels, include_scale, qshift, Xext, initial_row_extend,
                   initial_col_extend, LoLo, Yh, Yscale, level, warnings, xfmRet,
                   lowpassHistory>>

\* return Z, or the exception of the level 1 block
IfmReturn(res) ==
    IF res.err # "none"
    THEN /\ ifmRet' = [err |-> res.err]
         /\ pc' = "ifm_raised"
         /\ UNCHANGED Z
    ELSE /\ Z' = res.Y
         /\ ifmRet' = [err |-> "none", Z |-> res.Y]
         /\ pc' = "ifm_returned"

\* dtwaveifm2 lines 262-273: the level 1 block when a level is left, the return
IfmFinish ==
    /\ pc = "ifm_loop"
    /\ current_level < 2
    /\ IfmReturn(IF current_level = 1
                 THEN IfmLevel1(Z, xfmRet.Yh[1], DefaultGainMask(Len(xfmRet.Yh)), Legall)
                 ELSE Return(Z))
    /\ nbufs' = IF current_level = 1 THEN nbufs + 1 ELSE nbufs
    /\ bufZ' = IF current_level = 1 THEN nbufs' ELSE bufZ
    /\ bufRet' = IF pc' = "ifm_returned" THEN bufZ' ELSE bufRet
    /\ UNCHANGED <<imageBuf, bufX, bufLoLo, bufYl>>
    /\ UNCHANGED <<packVars, filtVars, primVars>>
    /\ UNCHANGED <<image, nlevels, include_scale, qshift, Xext, initial_row_extend,
                   initial_col_extend, LoLo, Yh, Yscale, level, warnings, xfmRet,
                   lowpassHistory, current_level>>

XfmNext ==
    \/ XfmEnter
    \/ XfmFirstLevel
    \/ XfmNextLevel
    \/ XfmFinish
    \/ IfmEnter
    \/ IfmNextLevel
    \/ IfmFinish

\* dtwavexfm2 followed by dtwaveifm2 on what it returned
SpecXfm == XfmInit /\ [][XfmNext]_vars

----------------------------------------------------------------------------
(* The quad packer called on its own: z = q2c(y), then x = c2q(z, gain) *)

\* y has shape 2H x 2W with H and W in 1..MaxPackHalf
MaxPackHalf == 2

\* the elements of the exhaustively enumerated 2 x 2 quads run over
\* -MaxPackVal..MaxPackVal
MaxPackVal == 2

\* both gains of c2q run over 0..MaxGain
MaxGain == 1

\* one matrix per shape, no two elements of it equal
Distinct(r, c) == Mat(1, [i \in 1..r |-> [j \in 1..c |-> (i - 1) * c + j]])

PackInputs ==
    {Distinct(2 * H, 2 * W) : H \in 1..MaxPackHalf, W \in 1..MaxPackHalf}
    \cup {Mat(1, <<<<a, b>>, <<c, d>>>>) : a \in -MaxPackVal..MaxPackVal,
                                            b \in -MaxPackVal..MaxPackVal,
                                            c \in -MaxPackVal..MaxPackVal,
                                            d \in -MaxPackVal..MaxPackVal}

XfmIdle ==
    /\ image = Unset /\ nlevels = 0 /\ include_scale = FALSE /\ qshift = Unset
    /\ Xext = Unset /\ initial_row_extend = 0 /\ initial_col_extend = 0
    /\ LoLo = Unset /\ Yh = Unset /\ Yscale = Unset /\ level = 0
    /\ warnings = <<>> /\ xfmRet = Unset /\ lowpassHistory = <<>>
    /\ Z = Unset /\ current_level = 0 /\ ifmRet = Unset
    /\ imageBuf = 0 /\ nbufs = 0 /\ bufX = 0 /\ bufLoLo = 0
    /\ bufYl = 0 /\ bufZ = 0 /\ bufRet = 0

PackInit ==
    /\ XfmIdle
    /\ FiltIdle
    /\ PrimIdle
    /\ pc = "pack_enter"
    /\ packY \in PackInputs
    /\ packGain \in {<<g0, g1>> : g0 \in 0..MaxGain, g1 \in 0..MaxGain}
    /\ packZ = Unset
    /\ packX = Unset

\* z = q2c(y)
PackQ2C ==
    /\ pc = "pack_enter"
    /\ packZ' = q2c(packY)
    /\ pc' = "pack_packed"
    /\ UNCHANGED <<packY, packGain, packX, xfmVars, filtVars, primVars>>

\* x = c2q(z, gain)
PackC2Q ==
    /\ pc = "pack_packed"
    /\ packX' = c2q(packZ, packGain)
    /\ pc' = "pack_done"
    /\ UNCHANGED <<packY, packGain, packZ, xfmVars, filtVars, primVars>>

PackNext ==
    \/ PackQ2C
    \/ PackC2Q

\* q2c followed by c2q on what it returned
SpecPack == PackInit /\ [][PackNext]_vars

----------------------------------------------------------------------------
(* The filter pair called on its own: coldfilt(X, ha, hb) or colifilt(X, ha, hb),
   and colifilt on what coldfilt returned *)

\* X has 1..MaxFiltRows rows and 1..MaxFiltCols columns
MaxFiltRows == 8

MaxFiltCols == 2

\* ha and hb have 1..MaxFiltLen taps each
MaxFiltLen == 6

\* the contents of X: all zero, non-zero in a single row k only, or non-zero
\* in most places
FiltInputs(r, c) ==
    {Zeros(r, c), Ramp(r, c)}
    \cup {Mat(1, [i \in 1..r |-> [j \in 1..c |-> IF i = k THEN j ELSE 0]]) : k \in 1..r}

\* two filters per length: their inner product is positive with themselves
\* and negative with each other for lengths >= 2
TapsA(n) == Filter(2, [k \in 1..n |-> IF k % 2 = 1 THEN k + 1 ELSE -k])

TapsB(n) == Filter(2, [k \in 1..n |-> IF k % 2 = 1 THEN k ELSE k + 1])

FiltFilters == {TapsA(n) : n \in 1..MaxFiltLen} \cup {TapsB(n) : n \in 1..MaxFiltLen}

FiltInit ==
    /\ XfmIdle
    /\ PackIdle
    /\ PrimIdle
    /\ pc = "filt_enter"
    /\ filtX \in UNION {FiltInputs(r, c) : r \in 1..MaxFiltRows, c \in 1..MaxFiltCols}
    /\ filtHa \in FiltFilters
    /\ filtHb \in FiltFilters
    /\ filtRet = Unset
    /\ filtBack = Unset

\* Y = coldfilt(X, ha, hb)
CallColdfilt ==
    /\ pc = "filt_enter"
    /\ filtRet' = coldfilt(filtX, filtHa, filtHb)
    /\ pc' = IF filtRet'.err = "none" THEN "coldfilt_returned" ELSE "coldfilt_raised"
    /\ UNCHANGED <<filtX, filtHa, filtHb, filtBack, xfmVars, packVars, primVars>>

\* Y = colifilt(X, ha, hb)
CallColifilt ==
    /\ pc = "filt_enter"
    /\ filtRet' = colifilt(filtX, filtHa, filtHb)
    /\ pc' = IF filtRet'.err = "none" THEN "colifilt_returned" ELSE "colifilt_raised"
    /\ UNCHANGED <<filtX, filtHa, filtHb, filtBack, xfmVars, packVars, primVars>>

\* colifilt(Y, ha, hb) for the Y coldfilt returned
CallColifiltOnResult ==
    /\ pc = "coldfilt_returned"
    /\ filtBack' = colifilt(filtRet.Y, filtHa, filtHb)
    /\ pc' = "back_done"
    /\ UNCHANGED <<filtX, filtHa, filtHb, filtRet, xfmVars, packVars, primVars>>

FiltNext ==
    \/ CallColdfilt
    \/ CallColifilt
    \/ CallColifiltOnResult

\* one call of a filter pair
SpecFilt == FiltInit /\ [][FiltNext]_vars

----------------------------------------------------------------------------
(* reflect called on its own, statement by statement.  The arrays live in
   reflHeap so that y being a copy of x, or x itself, is a fact of the state *)

\* x has 0..MaxReflLen elements
MaxReflLen == 2

\* the elements of x run over -MaxReflVal..MaxReflVal
MaxReflVal == 6

\* 2*minx and 2*maxx run over -MaxReflBound..MaxReflBound: integers and
\* half-integers
MaxReflBound == 3

RECURSIVE SeqsUpTo(_, _)
SeqsUpTo(S, n) ==
    IF n = 0 THEN {<<>>}
    ELSE SeqsUpTo(S, n - 1) \cup {Append(q, v) : q \in SeqsUpTo(S, n - 1), v \in S}

ReflInit ==
    /\ XfmIdle
    /\ PackIdle
    /\ FiltIdle
    /\ ConvIdle
    /\ pc = "refl_enter"
    /\ reflArg \in SeqsUpTo(-MaxReflVal..MaxReflVal, MaxReflLen)
    /\ reflHeap = <<reflArg>>
    /\ reflMinx2 \in -MaxReflBound..MaxReflBound
    /\ reflMaxx2 \in -MaxReflBound..MaxReflBound
    /\ reflMinx2 < reflMaxx2
    /\ reflY = 0
    /\ reflRet = 0

\* np.array(x, copy=True): a new array with the elements of array ref
ArrayCopy(heap, ref) == Append(heap, heap[ref])

\* y = np.array(x, copy=True); x is array 1
ReflectCopy ==
    /\ pc = "refl_enter"
    /\ reflHeap' = ArrayCopy(reflHeap, 1)
    /\ reflY' = Len(reflHeap')
    /\ pc' = "refl_first"
    /\ UNCHANGED <<reflArg, reflMinx2, reflMaxx2, reflRet>>
    /\ UNCHANGED <<xfmVars, packVars, filtVars, convVars>>

\* t = y > maxx; y[t] = 2*maxx - y[t]
ReflectFirstMax ==
    /\ pc = "refl_first"
    /\ reflHeap' = [reflHeap EXCEPT ![reflY] = ReflectMax(@, reflMaxx2)]
    /\ pc' = "refl_while"
    /\ UNCHANGED <<reflArg, reflMinx2, reflMaxx2, reflY, reflRet>>
    /\ UNCHANGED <<xfmVars, packVars, filtVars, convVars>>

\* np.any(y < minx)
AnyBelow(y, minx2) == \E k \in 1..Len(y) : 2 * y[k] < minx2

\* one pass of the while loop: reflect y in minx, then in maxx
ReflectPass ==
    /\ pc = "refl_while"
    /\ AnyBelow(reflHeap[reflY], reflMinx2)
    /\ reflHeap' = [reflHeap EXCEPT ![reflY] = ReflectMax(ReflectMin(@, reflMinx2), reflMaxx2)]
    /\ UNCHANGED <<pc, reflArg, reflMinx2, reflMaxx2, reflY, reflRet>>
    /\ UNCHANGED <<xfmVars, packVars, filtVars, convVars>>

\* return y
ReflectReturn ==
    /\ pc = "refl_while"
    /\ ~AnyBelow(reflHeap[reflY], reflMinx2)
    /\ reflRet' = reflY
    /\ pc' = "refl_returned"
    /\ UNCHANGED <<reflHeap, reflArg, reflMinx2, reflMaxx2, reflY>>
    /\ UNCHANGED <<xfmVars, packVars, filtVars, convVars>>

ReflNext ==
    \/ ReflectCopy
    \/ ReflectFirstMax
    \/ ReflectPass
    \/ ReflectReturn

\* one call of reflect; a statement that can run does run
SpecRefl == ReflInit /\ [][ReflNext]_vars /\ WF_vars(ReflNext)

----------------------------------------------------------------------------
(* _column_convolve called on its own, on both sides of the size threshold *)

\* X has 1..MaxConvRows rows and 1..MaxConvCols columns
MaxConvRows == 33

MaxConvCols == 2

\* h has 1..MaxConvLen taps, no more than X has rows
MaxConvLen == 3

\* the contents of X: a sequence with no period, or a single 1 in row k
ConvInputs(r, c) ==
    {[i \in 1..r |-> [j \in 1..c |-> ((i * i + 3 * j) % 5) - 2]]}
    \cup {[i \in 1..r |-> [j \in 1..c |-> IF i = k THEN 1 ELSE 0]] : k \in {1, r}}

\* two kernels per length, neither symmetric for lengths >= 2
ConvKernels(m) == {[k \in 1..m |-> k], [k \in 1..m |-> IF k % 2 = 1 THEN -k ELSE k + 1]}

ConvInit ==
    /\ XfmIdle
    /\ PackIdle
    /\ FiltIdle
    /\ ReflIdle
    /\ pc = "conv_enter"
    /\ \E m \in 1..MaxConvLen : \E r \in m..MaxConvRows : \E c \in 1..MaxConvCols :
          /\ convX \in ConvInputs(r, c)
          /\ convH \in ConvKernels(m)
    /\ convPath = Unset
    /\ convRet = Unset

\* Y = _column_convolve(X, h)
CallColumnConvolve ==
    /\ pc = "conv_enter"
    /\ convPath' = IF NRows(convX) + Len(convH) - 1 < DirectThreshold THEN "direct" ELSE "fourier"
    /\ convRet' = column_convolve(convX, convH)
    /\ pc' = "conv_returned"
    /\ UNCHANGED <<convX, convH, xfmVars, packVars, filtVars, reflVars>>

ConvNext == CallColumnConvolve

\* one call of _column_convolve
SpecConv == ConvInit /\ [][ConvNext]_vars

----------------------------------------------------------------------------
(* Properties of the quad packer (SpecPack) *)

\* C1: quad packer round trip. For every real y of shape 2H x 2W,
\* c2q(q2c(y), [1,1]) has the shape of y and equals y element by element:
\* every corner a, b, c, d of every quad comes back to the position it was
\* gathered from, with its sign.
C1_PackerRoundTrip ==
    (pc = "pack_done" /\ packGain = <<1, 1>>) =>
        /\ NRows(packX.m) = NRows(packY.m)
        /\ NCols(packX.m) = NCols(packY.m)
        /\ \A i \in 1..NRows(packY.m) : \A j \in 1..NCols(packY.m) :
              packX.m[i][j] * packY.den = packY.m[i][j] * packX.den

\* C1 is exercised: a 4 x 4 matrix of sixteen different elements went through
\* q2c and c2q with gain [1,1]
C1_Witness ==
    /\ pc = "pack_done"
    /\ packGain = <<1, 1>>
    /\ packY = Distinct(4, 4)
    /\ packX.m[4][1] = 2 * 13

----------------------------------------------------------------------------
(* Properties of the filter pair (SpecFilt) *)

CalledColdfilt == pc \in {"coldfilt_returned", "coldfilt_raised"}

CalledColifilt == pc \in {"colifilt_returned", "colifilt_raised"}

\* the three precondition failures, each stated on the arguments alone
RowsNotMultiple(multiple) == NRows(filtX.m) % multiple # 0

ShapesDiffer == Len(filtHa.h) # Len(filtHb.h)

LengthOdd == Len(filtHa.h) % 2 # 0

ValidPair(multiple) == ~RowsNotMultiple(multiple) /\ ~ShapesDiffer /\ ~LengthOdd

\* C2: the zero fast path of colifilt is a pure optimization. For every valid
\* X, what colifilt returns equals what the general convolving path returns
\* for that X, and the short-circuit is taken only for an identically zero X.
C2_FastPathPureOptimization ==
    (pc = "colifilt_returned") =>
        /\ colifiltGeneral(filtX, filtHa, filtHb).err = "none"
        /\ MatEq(filtRet.Y, colifiltGeneral(filtX, filtHa, filtHb).Y)
        /\ ZeroFastPath(filtX) => IsZeroMat(filtX)

\* C2's case: colifilt returned for a valid X whose only non-zero elements
\* are in row 0
C2_Witness ==
    /\ pc = "colifilt_returned"
    /\ ~IsZeroMat(filtX)
    /\ \A i \in 2..NRows(filtX.m) : \A j \in 1..NCols(filtX.m) : filtX.m[i][j] = 0

\* the streams of coldfilt for r rows and m taps: every index read from xe is
\* in 0..Len(xe)-1, xe extends X by m samples at each end, and the valid
\* convolution of a stream leaves r/4 rows
ColdfiltStreamsFit(r, m) ==
    /\ Len(coldfiltXe(r, m)) = r + 2 * m
    /\ \A k \in 1..Len(coldfiltT(r, m)) :
          coldfiltT(r, m)[k] - 3 >= 0 /\ coldfiltT(r, m)[k] < Len(coldfiltXe(r, m))
    /\ \A k \in 1..Len(coldfiltXe(r, m)) :
          coldfiltXe(r, m)[k] >= 0 /\ coldfiltXe(r, m)[k] < r
    /\ Len(coldfiltT(r, m)) - (m \div 2) + 1 = r \div 4

\* the streams of colifilt for r rows and m taps leave r/2 rows each
ColifiltStreamsFit(r, m) == Len(colifiltT(r, m)) - (m \div 2) + 1 = r \div 2

\* C9: shape recovery. For R divisible by 4 and equal even-length filters,
\* coldfilt returns R/2 x C, reading only indices in range, each stream with
\* R/4 rows; colifilt on an r x C input returns 2r x C on both branches, so
\* colifilt on the result of coldfilt returns R x C, each stream with R/4 rows.
C9_ShapeRecovery ==
    /\ (CalledColdfilt /\ ValidPair(4)) =>
          /\ filtRet.err = "none"
          /\ Shape(filtRet.Y) = <<NRows(filtX.m) \div 2, NCols(filtX.m)>>
          /\ ColdfiltStreamsFit(NRows(filtX.m), Len(filtHa.h))
    /\ (CalledColifilt /\ ValidPair(2)) =>
          /\ filtRet.err = "none"
          /\ Shape(filtRet.Y) = <<NRows(filtX.m) * 2, NCols(filtX.m)>>
          /\ ColifiltStreamsFit(NRows(filtX.m), Len(filtHa.h))
    /\ (pc = "back_done") =>
          /\ filtBack.err = "none"
          /\ Shape(filtBack.Y) = Shape(filtX)
          /\ ColifiltStreamsFit(NRows(filtX.m) \div 2, Len(filtHa.h))
          /\ Len(colifiltT(NRows(filtX.m) \div 2, Len(filtHa.h))) - (Len(filtHa.h) \div 2) + 1
                = NRows(filtX.m) \div 4

\* C9 is exercised: an 8 x 2 input in general position went through coldfilt
\* and colifilt with 6-tap filters (m/2 odd) of negative inner product
C9_Witness ==
    /\ pc = "back_done"
    /\ filtX = Ramp(8, 2)
    /\ Len(filtHa.h) = 6
    /\ filtHa # filtHb
    /\ ~IsZeroMat(filtBack.Y)

\* the ValueError the arguments call for, by the first failing condition
ExpectedError(multiple) ==
    IF RowsNotMultiple(multiple)
    THEN IF multiple = 4 THEN "No. of rows in X must be a multiple of 4"
                         ELSE "No. of rows in X must be a multiple of 2"
    ELSE IF ShapesDiffer THEN "Shapes of ha and hb must be the same"
    ELSE IF LengthOdd THEN "Lengths of ha and hb must be even"
    ELSE "none"

\* C10: precondition errors. coldfilt (multiple 4) and colifilt (multiple 2)
\* raise a ValueError, with no output and before the zero fast path, exactly
\* when the row count is no multiple, or ha and hb differ in shape, or the
\* length is odd; the three errors are distinct and reported in that order;
\* when none holds the call returns a result.
C10_PreconditionErrors ==
    /\ CalledColdfilt =>
          /\ filtRet.err = ExpectedError(4)
          /\ (pc = "coldfilt_raised") <=> (RowsNotMultiple(4) \/ ShapesDiffer \/ LengthOdd)
          /\ (pc = "coldfilt_raised") => filtRet.Y.m = <<>>
    /\ CalledColifilt =>
          /\ filtRet.err = ExpectedError(2)
          /\ (pc = "colifilt_raised") <=> (RowsNotMultiple(2) \/ ShapesDiffer \/ LengthOdd)
          /\ (pc = "colifilt_raised") => filtRet.Y.m = <<>>

\* C10 is exercised: colifilt raised on an all-zero X with an odd row count
\* and filters of different lengths
C10_Witness ==
    /\ pc = "colifilt_raised"
    /\ IsZeroMat(filtX)
    /\ RowsNotMultiple(2)
    /\ ShapesDiffer
    /\ filtRet.err = "No. of rows in X must be a multiple of 2"

----------------------------------------------------------------------------
(* Properties of the transform pair (SpecXfm) *)

\* n rounded up to the next even number
RoundUpToEven(n) == n + (n % 2)

\* the rows or columns of a LoLo of n rows or columns (n even) once padded to
\* a multiple of 4
PaddedTo4(n) == IF n % 4 # 0 THEN n + 2 ELSE n

\* C3: perfect reconstruction. For an orthogonal filter set, an image X of
\* even dimensions and n in {1,2,3}, dtwaveifm2(dtwavexfm2(X, n)) with the
\* same filters and the default gain mask equals X.
C3_PerfectReconstruction ==
    (/\ pc = "ifm_returned"
     /\ nlevels \in 1..3
     /\ NRows(image.m) % 2 = 0
     /\ NCols(image.m) % 2 = 0) =>
        /\ Shape(ifmRet.Z) = Shape(image)
        /\ \A i \in 1..NRows(image.m) : \A j \in 1..NCols(image.m) :
              ifmRet.Z.m[i][j] * image.den = image.m[i][j] * ifmRet.Z.den

\* C3's case: an image of even dimensions went through both transforms
C3_Witness ==
    /\ pc = "ifm_returned"
    /\ nlevels = 3
    /\ Shape(image) = <<6, 4>>

\* C4: reconstruction shape. For every input shape (R, C) and every n >= 0,
\* dtwaveifm2 on what dtwavexfm2 returned never raises the subband size
\* error; after every inverse level l >= 2 the cropped Z has twice the rows
\* and columns of the next finer subband tensor; the final image has shape
\* (R rounded up to even, C rounded up to even).
C4_ReconstructionShape ==
    /\ (pc = "ifm_raised") => ifmRet.err # "Sizes of subbands are not valid for DTWAVEIFM2"
    /\ (pc = "ifm_loop" /\ current_level >= 1 /\ current_level < Len(xfmRet.Yh)) =>
          /\ NRows(Z.m) = 2 * PlaneShape(xfmRet.Yh[current_level])[1]
          /\ NCols(Z.m) = 2 * PlaneShape(xfmRet.Yh[current_level])[2]
    /\ (pc = "ifm_returned") =>
          Shape(ifmRet.Z) = <<RoundUpToEven(NRows(image.m)), RoundUpToEven(NCols(image.m))>>

\* C4 is exercised: a 5 x 6 image came back as 6 x 6 after three levels, the
\* inverse of level 2 having cropped Z from 8 x 8
C4_Witness ==
    /\ pc = "ifm_returned"
    /\ nlevels = 3
    /\ Shape(image) = <<5, 6>>
    /\ Shape(ifmRet.Z) = <<6, 6>>
    /\ Shape(lowpassHistory[2]) = <<4, 4>>

\* C5: per-level scale capture. With include_scale and n >= 1 the returned
\* scale sequence has n entries and entry l is the LoLo produced at level
\* l+1 (0-based l), none a placeholder, none overwritten by a later level.
C5_ScalePerLevel ==
    (pc = "xfm_returned" /\ include_scale /\ nlevels >= 1) =>
        /\ Len(xfmRet.Yscale) = nlevels
        /\ \A l \in 1..nlevels :
              /\ xfmRet.Yscale[l] # None
              /\ xfmRet.Yscale[l] = lowpassHistory[l]

\* C5's case: dtwavexfm2 returned a scale sequence for more than one level
C5_Witness ==
    /\ pc = "xfm_returned"
    /\ include_scale
    /\ nlevels = 2

\* C6: extension advisory. For every n >= 0, dtwavexfm2 emits the advisory
\* exactly when it duplicated the last row and/or column of an odd-sized
\* input, naming the row, the column or both, and none for even sizes.
C6_AdvisoryForEveryLevelCount ==
    (pc = "xfm_returned") =>
        /\ (warnings # <<>>) <=> (NRows(image.m) % 2 # 0 \/ NCols(image.m) % 2 # 0)
        /\ (NRows(image.m) % 2 # 0 /\ NCols(image.m) % 2 # 0) =>
              \E k \in 1..Len(warnings) : warnings[k].text =
                 "The bottom row and rightmost column have been duplicated, prior to decomposition."
        /\ (NRows(image.m) % 2 # 0 /\ NCols(image.m) % 2 = 0) =>
              \E k \in 1..Len(warnings) : warnings[k].text =
                 "The bottom row has been duplicated, prior to decomposition."
        /\ (NRows(image.m) % 2 = 0 /\ NCols(image.m) % 2 # 0) =>
              \E k \in 1..Len(warnings) : warnings[k].text =
                 "The rightmost column has been duplicated, prior to decomposition."

\* C6's case: dtwavexfm2 returned for an input with an odd row count and
\* nlevels = 0
C6_Witness ==
    /\ pc = "xfm_returned"
    /\ nlevels = 0
    /\ NRows(image.m) % 2 # 0

\* C7: level-count boundary. With nlevels = 0 dtwavexfm2 returns as Yl the
\* input with only the odd-dimension extension (last row duplicated for an
\* odd row count, last column for an odd column count), an empty subband
\* sequence and, with include_scale, an empty scale sequence.
C7_ZeroLevels ==
    (pc = "xfm_returned" /\ nlevels = 0) =>
        /\ xfmRet.err = "none"
        /\ xfmRet.Yh = <<>>
        /\ include_scale => xfmRet.Yscale = <<>>
        /\ xfmRet.Yl.den = image.den
        /\ NRows(xfmRet.Yl.m) = RoundUpToEven(NRows(image.m))
        /\ NCols(xfmRet.Yl.m) = RoundUpToEven(NCols(image.m))
        /\ \A i \in 1..NRows(xfmRet.Yl.m) : \A j \in 1..NCols(xfmRet.Yl.m) :
              xfmRet.Yl.m[i][j] =
                 image.m[IF i > NRows(image.m) THEN NRows(image.m) ELSE i]
                        [IF j > NCols(image.m) THEN NCols(image.m) ELSE j]

\* C7 is exercised: a 5 x 3 image came back as 6 x 4 with nlevels = 0 and
\* include_scale
C7_Witness ==
    /\ pc = "xfm_returned"
    /\ nlevels = 0
    /\ include_scale
    /\ Shape(image) = <<5, 3>>
    /\ Shape(xfmRet.Yl) = <<6, 4>>

\* C8 as stated: for every n >= 1 dtwavexfm2 returns n subband tensors, none
\* a placeholder, and the tensor of every level l has half the rows and
\* columns of the lowpass image feeding level l: the extended input for
\* level 1, the possibly padded LoLo of the previous level for levels >= 2.
C8_SubbandShapeAsStated ==
    (pc = "xfm_returned" /\ nlevels >= 1) =>
        /\ Len(xfmRet.Yh) = nlevels
        /\ \A l \in 1..nlevels : xfmRet.Yh[l] # None
        /\ PlaneShape(xfmRet.Yh[1]) = <<NRows(Xext.m) \div 2, NCols(Xext.m) \div 2>>
        /\ \A l \in 2..nlevels :
              PlaneShape(xfmRet.Yh[l]) =
                 <<PaddedTo4(NRows(lowpassHistory[l - 1].m)) \div 2,
                   PaddedTo4(NCols(lowpassHistory[l - 1].m)) \div 2>>

\* C8, amended: dtwavexfm2 returns for every input shape and every n >= 1,
\* with n subband tensors, none a placeholder; the tensor of level 1 has half
\* the rows and columns of the extended input; the tensor of a level l >= 2
\* has a quarter of the rows and columns of the padded LoLo feeding the
\* level, which is half of those of the LoLo the level produces.
C8_SubbandShape ==
    /\ pc # "xfm_raised"
    /\ (pc = "xfm_returned" /\ nlevels >= 1) =>
          /\ Len(xfmRet.Yh) = nlevels
          /\ \A l \in 1..nlevels : xfmRet.Yh[l] # None
          /\ PlaneShape(xfmRet.Yh[1]) =
                <<RoundUpToEven(NRows(image.m)) \div 2, RoundUpToEven(NCols(image.m)) \div 2>>
          /\ \A l \in 2..nlevels :
                /\ PlaneShape(xfmRet.Yh[l]) =
                      <<PaddedTo4(NRows(lowpassHistory[l - 1].m)) \div 4,
                        PaddedTo4(NCols(lowpassHistory[l - 1].m)) \div 4>>
                /\ PlaneShape(xfmRet.Yh[l]) =
                      <<NRows(lowpassHistory[l].m) \div 2, NCols(lowpassHistory[l].m) \div 2>>

\* C8 is exercised: three levels on a 6 x 5 image, whose level 1 LoLo of
\* 6 x 6 is padded to 8 x 8 before level 2
C8_Witness ==
    /\ pc = "xfm_returned"
    /\ nlevels = 3
    /\ Shape(image) = <<6, 5>>
    /\ Shape(lowpassHistory[1]) = <<6, 6>>
    /\ PlaneShape(xfmRet.Yh[2]) = <<2, 2>>
    /\ PlaneShape(xfmRet.Yh[3]) = <<1, 1>>

----------------------------------------------------------------------------
(* Properties of reflect (SpecRefl) *)

\* v lies in [minx, maxx]
InRange(v, minx2, maxx2) == minx2 <= 2 * v /\ 2 * v <= maxx2

\* what holds of a call of reflect at every moment: x keeps its elements, and
\* once reflect has returned, the array returned is not x, has the length of
\* x, lies in [minx, maxx] and keeps every element of x that was in range
ReflectSafe ==
    /\ (reflHeap # <<>>) => reflHeap[1] = reflArg
    /\ (pc = "refl_returned") =>
          /\ reflRet # 1
          /\ Len(reflHeap[reflRet]) = Len(reflArg)
          /\ \A k \in 1..Len(reflArg) :
                /\ InRange(reflHeap[reflRet][k], reflMinx2, reflMaxx2)
                /\ InRange(reflArg[k], reflMinx2, reflMaxx2) => reflHeap[reflRet][k] = reflArg[k]

\* C11: reflection boundary property. For every finite sequence of integer
\* indices x and boundaries minx < maxx (integers or half-integers),
\* reflect(x, minx, maxx) terminates and returns a sequence of the same
\* length, every element in [minx, maxx], every element already in range
\* unchanged, and x itself is not modified.
C11_ReflectBoundary == []ReflectSafe /\ <>(pc = "refl_returned")

\* C11 is exercised: reflect returned for x = [-6, 1] and the boundaries
\* -0.5 and 1.5, where -6 takes two passes of the loop to fold to 1
C11_Witness ==
    /\ pc = "refl_returned"
    /\ reflArg = <<-6, 1>>
    /\ reflMinx2 = -1
    /\ reflMaxx2 = 3
    /\ reflHeap[reflRet] = <<1, 1>>

----------------------------------------------------------------------------
(* Properties of _column_convolve (SpecConv) *)

\* element (k, c), k 0-based, of the full linear convolution of the columns
\* of X with h
LinearConvolution(X, h, k, c) ==
    SumSeq([j \in 1..Len(h) |->
       IF k - (j - 1) >= 0 /\ k - (j - 1) < NRows(X) THEN h[j] * X[k - (j - 1) + 1][c] ELSE 0])

\* Y is rows m-1 .. R-1 of the full linear convolution of X with h
IsValidPortion(Y, X, h) ==
    /\ NRows(Y) = Abs(NRows(X) - Len(h)) + 1
    /\ \A i \in 1..NRows(Y) :
          /\ Len(Y[i]) = NCols(X)
          /\ \A c \in 1..NCols(X) : Y[i][c] = LinearConvolution(X, h, Len(h) - 1 + (i - 1), c)

\* C12: convolution-path equivalence. For every R x C matrix X and kernel h
\* of length m <= R, the direct path (R+m-1 < 32) and the Fourier path
\* (otherwise) of _column_convolve both return |R-m|+1 rows and C columns,
\* namely rows m-1 .. R-1 of the full linear convolution of each column with
\* h, so the result does not change across the size threshold.
C12_ConvolutionPaths ==
    (pc = "conv_returned") =>
        /\ IsValidPortion(convRet, convX, convH)
        /\ IsValidPortion(ConvolveValid(convX, convH), convX, convH)
        /\ IsValidPortion(FourierConvolve(convX, convH), convX, convH)
        /\ ConvolveValid(convX, convH) = FourierConvolve(convX, convH)

\* C12 is exercised: the Fourier path was taken at the threshold, for a
\* 30 x 2 matrix and 3 taps (full size 32), and returned 28 rows
C12_Witness ==
    /\ pc = "conv_returned"
    /\ convPath = "fourier"
    /\ NRows(convX) = 30
    /\ NCols(convX) = 2
    /\ Len(convH) = 3
    /\ NRows(convRet) = 28
    /\ convRet[1][1] # convRet[2][1]

----------------------------------------------------------------------------
(* Properties of the padding before the levels >= 2 (SpecXfm) *)

\* A is B with its first and last row duplicated when extra = 2, B itself
\* when extra = 0, and likewise for the columns
IsEdgePadded(A, B) ==
    /\ NRows(A.m) = PaddedTo4(NRows(B.m))
    /\ NCols(A.m) = PaddedTo4(NCols(B.m))
    /\ \A i \in 1..NRows(A.m) : \A j \in 1..NCols(A.m) :
          A.m[i][j] =
             B.m[Max(1, IF NRows(A.m) = NRows(B.m) THEN i
                        ELSE IF i - 1 > NRows(B.m) THEN NRows(B.m) ELSE i - 1)]
                [Max(1, IF NCols(A.m) = NCols(B.m) THEN j
                        ELSE IF j - 1 > NCols(B.m) THEN NCols(B.m) ELSE j - 1)]

\* C13: multiple-of-4 padding. For every input shape and nlevels >= 2, the
\* LoLo at the start of each level >= 2 has even row and column counts; after
\* the padding (first and last row / column duplicated when the count is no
\* multiple of 4) both counts are multiples of 4; so every coldfilt call of
\* the pipeline (on LoLo with the padded row count, on Lo and Hi with the
\* padded column count) gets a multiple of 4 and dtwavexfm2 never raises the
\* row-count error of coldfilt.
C13_PaddingInvariant ==
    /\ (pc = "xfm_loop") =>
          /\ NRows(LoLo.m) % 2 = 0
          /\ NCols(LoLo.m) % 2 = 0
          /\ NRows(PadToMultipleOf4(LoLo).m) % 4 = 0
          /\ NCols(PadToMultipleOf4(LoLo).m) % 4 = 0
          /\ IsEdgePadded(PadToMultipleOf4(LoLo), LoLo)
    /\ (pc = "xfm_raised") => xfmRet.err # "No. of rows in X must be a multiple of 4"

\* C13 is exercised: the third level of a 3 x 6 image starts on a LoLo of
\* 2 x 4, padded to 4 x 4 (rows only), the second having started on 4 x 6
\* padded to 4 x 8 (columns only)
C13_Witness ==
    /\ pc = "xfm_loop"
    /\ level = 2
    /\ nlevels = 3
    /\ Shape(image) = <<3, 6>>
    /\ Shape(lowpassHistory[1]) = <<4, 6>>
    /\ Shape(LoLo) = <<2, 4>>
    /\ Shape(PadToMultipleOf4(LoLo)) = <<4, 4>>

----------------------------------------------------------------------------
(* Properties of the arrays passed in and returned (SpecXfm) *)

\* C14: no aliasing between inputs and outputs. For every level count
\* (nlevels = 0 and an empty Yh included) and every input shape, the array
\* dtwavexfm2 returns as Yl is not the array passed in as X, and the array
\* dtwaveifm2 returns as Z is neither the array passed in as Yl nor X, so a
\* later in-place change of a returned array cannot change a caller's input.
C14_NoAliasing ==
    /\ (bufYl # 0) => bufYl # imageBuf
    /\ (bufRet # 0) => (bufRet # bufYl /\ bufRet # imageBuf)

\* C14's case: dtwavexfm2 returned for nlevels = 0 and an image of even
\* dimensions, which is not extended
C14_Witness ==
    /\ pc = "xfm_returned"
    /\ nlevels = 0
    /\ Shape(image) = <<4, 6>>
    /\ Shape(xfmRet.Yl) = <<4, 6>>

=============================================================================
